---- MODULE Spec2Model ----
(***************************************************************************)
(* Model of src/app.py: the electronics sales dashboard script.  One run   *)
(* of the script is one behaviour: load the CSV, clean it, keep the        *)
(* completed orders, encode, derive calendar features, aggregate and       *)
(* render six figures; the two except clauses and the footer end the run.  *)
(***************************************************************************)
EXTENDS Integers, Sequences, FiniteSets, TLC

VARIABLES
    pc,                      \* position of the script
    fileState,               \* what is at CSV_FILE_PATH: "missing", "malformed", "ok"
    fileTable,               \* the table the CSV holds (columns and rows)
    df,                      \* the dataframe df
    df_before_dropna,        \* history: df as it was entering line 31
    critical_missing_before, \* the local of line 30
    df_completed_sales,      \* the dataframe df_completed_sales
    daily_sales,             \* the aggregate of line 57
    monthly_sales,           \* the aggregate of line 86
    main,                    \* elements displayed in the main area, in order
    sidebar,                 \* elements displayed in the sidebar, in order
    exc                      \* the exception being propagated, or "none"

vars == <<pc, fileState, fileTable, df, df_before_dropna, critical_missing_before,
          df_completed_sales, daily_sales, monthly_sales, main, sidebar, exc>>

----------------------------------------------------------------------------
(* Bounds *)

MaxRows == 2

----------------------------------------------------------------------------
(* Values *)

CSV_FILE_PATH == "Electronic_sales_Sep2023-Sep2024.csv"

\* Null markers: NaN in a numeric column, NaN in an object (string) column,
\* NaT in a datetime column.
NaN == -1
NA == "NaN"
NaT == <<0, 0, 0>>

\* A dataframe name that is not bound yet.
UNSET == [columns |-> {}, rows |-> <<>>]

Columns ==
    {"Purchase Date", "Add-ons Purchased", "Add-on Total", "Age", "Gender",
     "Loyalty Member", "Payment Method", "Order Status", "Product Type",
     "Quantity", "Rating", "Promotion_Flag"}

NumericColumns == {"Add-on Total", "Age", "Quantity", "Rating"}

CriticalColumns == {"Age", "Gender", "Loyalty Member", "Payment Method"}

\* The null marker of a column as read_csv types it.
Null(col) == IF col \in NumericColumns THEN NaN ELSE NA

\* Series.isnull on a cell of a raw (read_csv typed) column.
isnull(col, v) == v = Null(col)

----------------------------------------------------------------------------
(* Input tables *)

BaseRow ==
    [c \in Columns |->
        CASE c = "Purchase Date" -> "2023-09-20"
          [] c = "Add-ons Purchased" -> "Accessory"
          [] c = "Add-on Total" -> 5
          [] c = "Age" -> 30
          [] c = "Gender" -> "Male"
          [] c = "Loyalty Member" -> "Yes"
          [] c = "Payment Method" -> "Credit Card"
          [] c = "Order Status" -> "Completed"
          [] c = "Product Type" -> "Laptop"
          [] c = "Quantity" -> 1
          [] c = "Rating" -> 5
          [] c = "Promotion_Flag" -> "Yes"]

\* Other values a cell of each column takes in the inputs.
OtherValues(c) ==
    CASE c = "Purchase Date" -> {NA, "2024-09-20", "2024-01-05", "not a date"}
      [] c = "Add-ons Purchased" -> {NA, "None"}
      [] c = "Add-on Total" -> {NaN, 0}
      [] c = "Age" -> {NaN}
      [] c = "Gender" -> {NA}
      [] c = "Loyalty Member" -> {NA, "No", "Maybe"}
      [] c = "Payment Method" -> {NA}
      [] c = "Order Status" -> {"Cancelled", "completed"}
      [] c = "Product Type" -> {"Smartphone"}
      [] c = "Quantity" -> {NaN, 2}
      [] c = "Rating" -> {4}
      [] c = "Promotion_Flag" -> {NA, "No", "Maybe"}

Vary(R) == {[r EXCEPT ![c] = v] : <<c, v>> \in UNION {{c} \X OtherValues(c) : c \in Columns}, r \in R}

\* Rows that differ from BaseRow in one cell, rows missing two critical cells,
\* and not-completed rows without a date.
InputRows ==
    {BaseRow} \cup Vary({BaseRow})
      \cup {[BaseRow EXCEPT !["Age"] = NaN, !["Gender"] = NA],
            [BaseRow EXCEPT !["Age"] = NaN, !["Gender"] = NA, !["Payment Method"] = NA],
            [BaseRow EXCEPT !["Purchase Date"] = NA, !["Order Status"] = "Cancelled"]}

SeqsUpTo(S, n) == UNION {[1..k -> S] : k \in 0..n}

Restrict(r, cols) == [c \in cols |-> r[c]]

\* A CSV with every expected column, or with one of them missing.
InputTables ==
    {[columns |-> cols, rows |-> [i \in DOMAIN rows |-> Restrict(rows[i], cols)]] :
        cols \in {Columns} \cup {Columns \ {c} : c \in Columns},
        rows \in SeqsUpTo(InputRows, MaxRows)}

----------------------------------------------------------------------------
(* Helpers on sequences *)

RECURSIVE SumSeq(_)
SumSeq(s) == IF s = <<>> THEN 0 ELSE Head(s) + SumSeq(Tail(s))

Column(frame, col) == [i \in DOMAIN frame.rows |-> frame.rows[i][col]]

Len0(frame) == Len(frame.rows)

Elem(kind, text, arg) == [kind |-> kind, text |-> text, arg |-> arg]

----------------------------------------------------------------------------

Init ==
    /\ pc = "read_csv"
    /\ \/ fileState \in {"missing", "malformed"} /\ fileTable = UNSET
       \/ fileState = "ok" /\ fileTable \in InputTables
    /\ df = UNSET
    /\ df_before_dropna = UNSET
    /\ critical_missing_before = 0
    /\ df_completed_sales = UNSET
    /\ daily_sales = UNSET
    /\ monthly_sales = UNSET
    /\ main = << Elem("title", "Electronics Sales Data Dashboard", 0),
                 Elem("write", "Analyzing customer purchase behavior", 0) >>
    /\ sidebar = <<>>
    /\ exc = "none"

----------------------------------------------------------------------------
(* Control *)

Raise(e) ==
    /\ pc' = "except"
    /\ exc' = e

Goto(next) ==
    /\ pc' = next
    /\ exc' = exc

Say(area, e) == Append(area, e)

\* lines 18-19: pd.read_csv and the success message
LoadData ==
    /\ pc = "read_csv"
    /\ \/ /\ fileState = "missing"
          /\ Raise("FileNotFoundError")
          /\ UNCHANGED <<df, main>>
       \/ /\ fileState = "malformed"
          /\ Raise("ParserError")
          /\ UNCHANGED <<df, main>>
       \/ /\ fileState = "ok"
          /\ df' = fileTable
          /\ main' = Say(main, Elem("success", "loaded successfully", CSV_FILE_PATH))
          /\ Goto("initial_rows")
    /\ UNCHANGED <<fileState, fileTable, df_before_dropna, critical_missing_before,
                   df_completed_sales, daily_sales, monthly_sales, sidebar>>

\* lines 22-24: the sidebar header and the initial row count
ReportInitialRows ==
    /\ pc = "initial_rows"
    /\ sidebar' = Say(Say(sidebar, Elem("header", "Data Preprocessing Status:", 0)),
                      Elem("write", "Initial rows", Len0(df)))
    /\ Goto("to_datetime")
    /\ UNCHANGED <<fileState, fileTable, df, df_before_dropna, critical_missing_before,
                   df_completed_sales, daily_sales, monthly_sales, main>>

----------------------------------------------------------------------------
(* Cleaner *)

\* pd.to_datetime on one cell: a missing cell is NaT, a date string is its
\* calendar date, anything else does not parse.
Parseable(s) == s \in {NA, "2023-09-20", "2024-09-20", "2024-01-05"}

to_datetime(s) ==
    CASE s = NA -> NaT
      [] s = "2023-09-20" -> <<2023, 9, 20>>
      [] s = "2024-09-20" -> <<2024, 9, 20>>
      [] s = "2024-01-05" -> <<2024, 1, 5>>

\* frame[col] = values, one value per row
SetColumn(frame, col, values) ==
    [columns |-> frame.columns \cup {col},
     rows |-> [i \in DOMAIN frame.rows |->
                 [c \in frame.columns \cup {col} |->
                     IF c = col THEN values[i] ELSE frame.rows[i][c]]]]

\* line 26
ParseDates ==
    /\ pc = "to_datetime"
    /\ IF "Purchase Date" \notin df.columns
         THEN Raise("KeyError") /\ UNCHANGED df
         ELSE IF \E i \in DOMAIN df.rows : ~Parseable(df.rows[i]["Purchase Date"])
           THEN Raise("ValueError") /\ UNCHANGED df
           ELSE /\ df' = SetColumn(df, "Purchase Date",
                                   [i \in DOMAIN df.rows |-> to_datetime(df.rows[i]["Purchase Date"])])
                /\ Goto("fillna")
    /\ UNCHANGED <<fileState, fileTable, df_before_dropna, critical_missing_before,
                   df_completed_sales, daily_sales, monthly_sales, main, sidebar>>

\* Series.fillna on one cell
fillna(col, v, default) == IF isnull(col, v) THEN default ELSE v

\* Variant: missing add-ons are left missing.
FillAddons_Skipped(frame) == frame

FillAddons(frame) ==
    SetColumn(frame, "Add-ons Purchased",
              [i \in DOMAIN frame.rows |->
                  fillna("Add-ons Purchased", frame.rows[i]["Add-ons Purchased"], "None")])

FillAddonTotal(frame) ==
    SetColumn(frame, "Add-on Total",
              [i \in DOMAIN frame.rows |-> fillna("Add-on Total", frame.rows[i]["Add-on Total"], 0)])

\* lines 27-28
FillDefaults ==
    /\ pc = "fillna"
    /\ IF "Add-ons Purchased" \notin df.columns
         THEN Raise("KeyError") /\ UNCHANGED df
         ELSE IF "Add-on Total" \notin df.columns
           THEN Raise("KeyError") /\ df' = FillAddons(df)
           ELSE df' = FillAddonTotal(FillAddons(df)) /\ Goto("dropna")
    /\ UNCHANGED <<fileState, fileTable, df_before_dropna, critical_missing_before,
                   df_completed_sales, daily_sales, monthly_sales, main, sidebar>>

\* line 30: df[critical].isnull().sum().sum(), the number of null cells
NullCells(r) == Cardinality({c \in CriticalColumns : isnull(c, r[c])})

CriticalMissing(frame) == SumSeq([i \in DOMAIN frame.rows |-> NullCells(frame.rows[i])])

\* Variant: only Age is in the subset.
dropna_AgeOnly(frame) == [frame EXCEPT !.rows = SelectSeq(frame.rows, LAMBDA r : ~isnull("Age", r["Age"]))]

\* line 31: df.dropna(subset=critical)
HasCritical(r) == \A c \in CriticalColumns : ~isnull(c, r[c])

dropna(frame) == [frame EXCEPT !.rows = SelectSeq(frame.rows, HasCritical)]

\* lines 30-33
DropCritical ==
    /\ pc = "dropna"
    /\ IF ~(CriticalColumns \subseteq df.columns)
         THEN /\ Raise("KeyError")
              /\ UNCHANGED <<df, df_before_dropna, critical_missing_before, sidebar>>
         ELSE /\ critical_missing_before' = CriticalMissing(df)
              /\ df_before_dropna' = df
              /\ df' = dropna(df)
              /\ sidebar' = IF critical_missing_before' > 0
                              THEN Say(sidebar, Elem("write", "Dropped rows with missing critical info",
                                                     critical_missing_before'))
                              ELSE sidebar
              /\ Goto("drop_duplicates")
    /\ UNCHANGED <<fileState, fileTable, df_completed_sales, daily_sales, monthly_sales, main>>

\* Variant: the result of drop_duplicates is discarded.
Unique_Discarded(s) == s

\* DataFrame.drop_duplicates: a row stays iff no earlier row equals it.
RECURSIVE Unique(_)
Unique(s) ==
    IF s = <<>> THEN <<>>
    ELSE LET front == Unique(SubSeq(s, 1, Len(s) - 1))
             last == s[Len(s)]
         IN IF \E i \in DOMAIN front : front[i] = last THEN front ELSE Append(front, last)

drop_duplicates(frame) == [frame EXCEPT !.rows = Unique(frame.rows)]

\* lines 35-36
DropDuplicates ==
    /\ pc = "drop_duplicates"
    /\ df' = drop_duplicates(df)
    /\ sidebar' = Say(sidebar, Elem("write", "Removed duplicates. Remaining rows", Len0(df')))
    /\ Goto("filter")
    /\ UNCHANGED <<fileState, fileTable, df_before_dropna, critical_missing_before,
                   df_completed_sales, daily_sales, monthly_sales, main>>

----------------------------------------------------------------------------
(* Filter and Encoder *)

\* Variant: the status is compared without regard to case.
CompletedOf_AnyCase(frame) ==
    [frame EXCEPT !.rows = SelectSeq(frame.rows, LAMBDA r : r["Order Status"] \in {"Completed", "completed"})]

IsCompleted(r) == r["Order Status"] = "Completed"

CompletedOf(frame) == [frame EXCEPT !.rows = SelectSeq(frame.rows, IsCompleted)]

\* lines 38-39
FilterCompleted ==
    /\ pc = "filter"
    /\ IF "Order Status" \notin df.columns
         THEN Raise("KeyError") /\ UNCHANGED <<df_completed_sales, sidebar>>
         ELSE /\ df_completed_sales' = CompletedOf(df)
              /\ sidebar' = Say(sidebar, Elem("write", "Filtered for 'Completed' orders. Rows for analysis",
                                              Len0(df_completed_sales')))
              /\ Goto("encode")
    /\ UNCHANGED <<fileState, fileTable, df, df_before_dropna, critical_missing_before,
                   daily_sales, monthly_sales, main>>

\* Series.map({'Yes': 1, 'No': 0}): a value that is not a key becomes NaN
YesNo(v) == CASE v = "Yes" -> 1 [] v = "No" -> 0 [] OTHER -> NaN

EncodeLoyalty(frame) ==
    SetColumn(frame, "Loyalty Member",
              [i \in DOMAIN frame.rows |-> YesNo(frame.rows[i]["Loyalty Member"])])

\* Variant: the promotion flag is mapped without fillna('No').
EncodePromotion_NoFill(frame) ==
    SetColumn(frame, "Promotion_Flag",
              [i \in DOMAIN frame.rows |->
                  IF frame.rows[i]["Promotion_Flag"] = "Yes" THEN 1
                  ELSE IF frame.rows[i]["Promotion_Flag"] = "No" THEN 0 ELSE NaN])

EncodePromotion(frame) ==
    SetColumn(frame, "Promotion_Flag",
              [i \in DOMAIN frame.rows |->
                  YesNo(fillna("Promotion_Flag", frame.rows[i]["Promotion_Flag"], "No"))])

\* lines 41-43
Encode ==
    /\ pc = "encode"
    /\ IF "Promotion_Flag" \notin df_completed_sales.columns
         THEN /\ Raise("KeyError")
              /\ df_completed_sales' = EncodeLoyalty(df_completed_sales)
              /\ UNCHANGED sidebar
         ELSE /\ df_completed_sales' = EncodePromotion(EncodeLoyalty(df_completed_sales))
              /\ sidebar' = Say(sidebar, Elem("write", "Preprocessing completed!", 0))
              /\ Goto("preview")
    /\ UNCHANGED <<fileState, fileTable, df, df_before_dropna, critical_missing_before,
                   daily_sales, monthly_sales, main>>

\* DataFrame.head(): the first five rows
head(frame) == [frame EXCEPT !.rows = SubSeq(frame.rows, 1, IF Len(frame.rows) < 5 THEN Len(frame.rows) ELSE 5)]

\* lines 45-46
Preview ==
    /\ pc = "preview"
    /\ main' = Say(Say(main, Elem("subheader", "Raw Data Preview (Completed Orders Only)", 0)),
                   Elem("dataframe", "", head(df_completed_sales)))
    /\ Goto("features")
    /\ UNCHANGED <<fileState, fileTable, df, df_before_dropna, critical_missing_before,
                   df_completed_sales, daily_sales, monthly_sales, sidebar>>

----------------------------------------------------------------------------
(* Feature deriver *)

IsLeap(y) == (y % 4 = 0 /\ y % 100 # 0) \/ y % 400 = 0

DaysBeforeMonth(y, m) ==
    LET cum == <<0, 31, 59, 90, 120, 151, 181, 212, 243, 273, 304, 334>>
    IN cum[m] + (IF m > 2 /\ IsLeap(y) THEN 1 ELSE 0)

\* Proleptic Gregorian ordinal, 0001-01-01 being day 1.
Ordinal(d) ==
    LET y == d[1] - 1
    IN y * 365 + (y \div 4) - (y \div 100) + (y \div 400) + DaysBeforeMonth(d[1], d[2]) + d[3]

\* .dt.dayofweek: Monday is 0
dayofweek(d) == (Ordinal(d) + 6) % 7

quarter(d) == ((d[2] - 1) \div 3) + 1

\* The ordinal of the Monday that starts ISO week 1 of year y.
IsoWeek1Monday(y) ==
    LET firstday == Ordinal(<<y, 1, 1>>)
        firstweekday == (firstday + 6) % 7
        monday == firstday - firstweekday
    IN IF firstweekday > 3 THEN monday + 7 ELSE monday

\* .dt.isocalendar().week
isoweek(d) ==
    LET today == Ordinal(d)
        w == (today - IsoWeek1Monday(d[1])) \div 7
    IN IF today < IsoWeek1Monday(d[1])
         THEN ((today - IsoWeek1Monday(d[1] - 1)) \div 7) + 1
         ELSE IF w >= 52 /\ today >= IsoWeek1Monday(d[1] + 1) THEN 1 ELSE w + 1

\* Variant: the month key keeps the year.
month_WithYear(d) == d[1] * 100 + d[2]

\* .dt.month
month(d) == d[2]

\* .dt.year and .dt.day
year(d) == d[1]

day(d) == d[3]

\* The Purchase Date column of frame; a .dt accessor gives NaN on a NaT cell.
Dates(frame) == Column(frame, "Purchase Date")

\* lines 49-53
CalendarFeatures(frame) ==
    LET d == Dates(frame)
        Year == [i \in DOMAIN d |-> IF d[i] = NaT THEN NaN ELSE year(d[i])]
        Month == [i \in DOMAIN d |-> IF d[i] = NaT THEN NaN ELSE month(d[i])]
        Day == [i \in DOMAIN d |-> IF d[i] = NaT THEN NaN ELSE day(d[i])]
        DayOfWeek == [i \in DOMAIN d |-> IF d[i] = NaT THEN NaN ELSE dayofweek(d[i])]
        Quarter == [i \in DOMAIN d |-> IF d[i] = NaT THEN NaN ELSE quarter(d[i])]
    IN SetColumn(SetColumn(SetColumn(SetColumn(SetColumn(frame,
          "Year", Year), "Month", Month), "Day", Day), "DayOfWeek", DayOfWeek), "Quarter", Quarter)

\* line 54
WeekFeature(frame) ==
    SetColumn(frame, "WeekOfYear", [i \in DOMAIN frame.rows |-> isoweek(Dates(frame)[i])])

\* line 54: the week of a NaT is <NA>, which astype(int) refuses to convert.
HasNaT(frame) == \E i \in DOMAIN frame.rows : frame.rows[i]["Purchase Date"] = NaT

\* lines 49-54
DeriveFeatures ==
    /\ pc = "features"
    /\ IF HasNaT(df_completed_sales)
         THEN /\ Raise("ValueError")
              /\ df_completed_sales' = CalendarFeatures(df_completed_sales)
         ELSE /\ df_completed_sales' = WeekFeature(CalendarFeatures(df_completed_sales))
              /\ Goto("daily_sales")
    /\ UNCHANGED <<fileState, fileTable, df, df_before_dropna, critical_missing_before,
                   daily_sales, monthly_sales, main, sidebar>>

----------------------------------------------------------------------------
(* Aggregator *)

\* Series.sum(): NaN cells are skipped.
RECURSIVE SumSkipNa(_)
SumSkipNa(s) ==
    IF s = <<>> THEN 0
    ELSE (IF Head(s) = NaN THEN 0 ELSE Head(s)) + SumSkipNa(Tail(s))

\* The members of S in ascending order of rank, a function on S.
RECURSIVE SortBy(_, _)
SortBy(S, rank) ==
    IF S = {} THEN <<>>
    ELSE LET least == CHOOSE x \in S : \A y \in S : rank[x] <= rank[y]
         IN <<least>> \o SortBy(S \ {least}, rank)

\* The sum of Quantity over the rows whose keycol cell is k.
QuantityOf(frame, keycol, k) ==
    LET InGroup(r) == r[keycol] = k
    IN SumSkipNa(Column([frame EXCEPT !.rows = SelectSeq(frame.rows, InGroup)], "Quantity"))

\* The table of one row per key, in the order of keys.
Sums(frame, keycol, keys) ==
    [columns |-> {keycol, "Quantity"},
     rows |-> [i \in DOMAIN keys |->
                 [c \in {keycol, "Quantity"} |->
                     IF c = keycol THEN keys[i] ELSE QuantityOf(frame, keycol, keys[i])]]]

\* frame.groupby(keycol)['Quantity'].sum().reset_index(): rows with a null
\* key are left out (dropna=True) and the keys come out sorted.
DateOrd(d) == d[1] * 10000 + d[2] * 100 + d[3]

\* The sort rank of a group key: dates by calendar order, numbers by value.
KeyOrd(keycol, k) == IF keycol = "Purchase Date" THEN DateOrd(k) ELSE k

groupby_sum(frame, keycol, null) ==
    LET keys == {frame.rows[i][keycol] : i \in DOMAIN frame.rows} \ {null}
    IN Sums(frame, keycol, SortBy(keys, [k \in keys |-> KeyOrd(keycol, k)]))

\* line 57
AggregateDaily ==
    /\ pc = "daily_sales"
    /\ IF "Quantity" \notin df_completed_sales.columns
         THEN Raise("KeyError") /\ UNCHANGED daily_sales
         ELSE /\ daily_sales' = groupby_sum(df_completed_sales, "Purchase Date", NaT)
              /\ Goto("chart1")
    /\ UNCHANGED <<fileState, fileTable, df, df_before_dropna, critical_missing_before,
                   df_completed_sales, monthly_sales, main, sidebar>>

----------------------------------------------------------------------------
(* Renderer *)

Pyplot(fig, data) == Elem("pyplot", fig, data)

\* lines 61-72
Chart1 ==
    /\ pc = "chart1"
    /\ main' = main \o << Elem("header", "Sales Performance Visualizations", 0),
                          Elem("subheader", "1. Daily Total Quantity Sold Over Time", 0),
                          Pyplot("fig1", daily_sales) >>
    /\ Goto("chart2")
    /\ UNCHANGED <<fileState, fileTable, df, df_before_dropna, critical_missing_before,
                   df_completed_sales, daily_sales, monthly_sales, sidebar>>

\* sns.barplot(x='Product Type', y='Quantity', estimator=sum): one bar per
\* product type, in order of appearance.
BarsByProduct(frame) == Sums(frame, "Product Type", Unique(Column(frame, "Product Type")))

\* lines 75-81
Chart2 ==
    /\ pc = "chart2"
    /\ IF "Product Type" \notin df_completed_sales.columns
         THEN /\ Raise("ValueError")
              /\ main' = Say(main, Elem("subheader", "2. Total Quantity Sold by Product Type", 0))
         ELSE /\ main' = main \o << Elem("subheader", "2. Total Quantity Sold by Product Type", 0),
                                    Pyplot("fig2", BarsByProduct(df_completed_sales)) >>
              /\ Goto("chart3")
    /\ UNCHANGED <<fileState, fileTable, df, df_before_dropna, critical_missing_before,
                   df_completed_sales, daily_sales, monthly_sales, sidebar>>

\* lines 84-91
Chart3 ==
    /\ pc = "chart3"
    /\ monthly_sales' = groupby_sum(df_completed_sales, "Month", NaN)
    /\ main' = main \o << Elem("subheader", "3. Monthly Sales Seasonality", 0),
                          Pyplot("fig3", monthly_sales') >>
    /\ Goto("chart5a")
    /\ UNCHANGED <<fileState, fileTable, df, df_before_dropna, critical_missing_before,
                   df_completed_sales, daily_sales, sidebar>>

\* lines 94-103
Chart5a ==
    /\ pc = "chart5a"
    /\ main' = main \o << Elem("subheader", "5. Customer Age Distribution and Sales Relationship", 0),
                          Pyplot("fig5a", Column(df_completed_sales, "Age")) >>
    /\ Goto("chart5b")
    /\ UNCHANGED <<fileState, fileTable, df, df_before_dropna, critical_missing_before,
                   df_completed_sales, daily_sales, monthly_sales, sidebar>>

Points(frame) ==
    [i \in DOMAIN frame.rows |->
        <<frame.rows[i]["Age"], frame.rows[i]["Quantity"], frame.rows[i]["Product Type"]>>]

\* lines 105-111
Chart5b ==
    /\ pc = "chart5b"
    /\ main' = Say(main, Pyplot("fig5b", Points(df_completed_sales)))
    /\ Goto("chart6")
    /\ UNCHANGED <<fileState, fileTable, df, df_before_dropna, critical_missing_before,
                   df_completed_sales, daily_sales, monthly_sales, sidebar>>

\* sns.countplot(x='Rating'): the number of rows per rating value, ascending.
Count(frame, col, v) == Cardinality({i \in DOMAIN frame.rows : frame.rows[i][col] = v})

CountsByRating(frame) ==
    LET ratings == {frame.rows[i]["Rating"] : i \in DOMAIN frame.rows} \ {NaN}
        order == SortBy(ratings, [k \in ratings |-> k])
    IN [i \in DOMAIN order |-> <<order[i], Count(frame, "Rating", order[i])>>]

\* lines 114-120
Chart6 ==
    /\ pc = "chart6"
    /\ IF "Rating" \notin df_completed_sales.columns
         THEN /\ Raise("ValueError")
              /\ main' = Say(main, Elem("subheader", "6. Distribution of Product Ratings", 0))
         ELSE /\ main' = main \o << Elem("subheader", "6. Distribution of Product Ratings", 0),
                                    Pyplot("fig6", CountsByRating(df_completed_sales)) >>
              /\ Goto("footer")
    /\ UNCHANGED <<fileState, fileTable, df, df_before_dropna, critical_missing_before,
                   df_completed_sales, daily_sales, monthly_sales, sidebar>>

----------------------------------------------------------------------------
(* Failure surface and footer *)

\* lines 123-125
HandleFileNotFound ==
    /\ pc = "except"
    /\ exc = "FileNotFoundError"
    /\ main' = main \o << Elem("error", "The file was not found", CSV_FILE_PATH),
                          Elem("info", "You can also upload a CSV file", 0) >>
    /\ pc' = "footer"
    /\ exc' = "none"
    /\ UNCHANGED <<fileState, fileTable, df, df_before_dropna, critical_missing_before,
                   df_completed_sales, daily_sales, monthly_sales, sidebar>>

\* Variant: the generic clause also catches FileNotFoundError.
HandleException_CatchAll ==
    /\ pc = "except"
    /\ main' = main \o << Elem("error", "An unexpected error occurred", exc),
                          Elem("info", "Please check the CSV file format and column names.", 0) >>
    /\ pc' = "footer"
    /\ exc' = "none"
    /\ UNCHANGED <<fileState, fileTable, df, df_before_dropna, critical_missing_before,
                   df_completed_sales, daily_sales, monthly_sales, sidebar>>

\* lines 126-128
HandleException ==
    /\ pc = "except"
    /\ exc # "FileNotFoundError"
    /\ main' = main \o << Elem("error", "An unexpected error occurred", exc),
                          Elem("info", "Please check the CSV file format and column names.", 0) >>
    /\ pc' = "footer"
    /\ exc' = "none"
    /\ UNCHANGED <<fileState, fileTable, df, df_before_dropna, critical_missing_before,
                   df_completed_sales, daily_sales, monthly_sales, sidebar>>

\* lines 131-133
Footer ==
    /\ pc = "footer"
    /\ main' = main \o << Elem("markdown", "---", 0),
                          Elem("markdown", "Developed for Data Science Solution Assignment.", 0) >>
    /\ pc' = "done"
    /\ UNCHANGED <<fileState, fileTable, df, df_before_dropna, critical_missing_before,
                   df_completed_sales, daily_sales, monthly_sales, sidebar, exc>>

Next ==
    \/ LoadData
    \/ ReportInitialRows
    \/ ParseDates
    \/ FillDefaults
    \/ DropCritical
    \/ DropDuplicates
    \/ FilterCompleted
    \/ Encode
    \/ Preview
    \/ DeriveFeatures
    \/ AggregateDaily
    \/ Chart1
    \/ Chart2
    \/ Chart3
    \/ Chart5a
    \/ Chart5b
    \/ Chart6
    \/ HandleFileNotFound
    \/ HandleException
    \/ Footer

Spec == Init /\ [][Next]_vars

----------------------------------------------------------------------------
(* Observations used by the properties *)

Said(area, text) == \E i \in DOMAIN area : area[i].text = text

ChartsShown == SelectSeq(main, LAMBDA e : e.kind = "pyplot")

Chart(fig) == (CHOOSE i \in DOMAIN main : main[i].kind = "pyplot" /\ main[i].text = fig)

HasChart(fig) == \E i \in DOMAIN main : main[i].kind = "pyplot" /\ main[i].text = fig

CleaningDone == Said(sidebar, "Removed duplicates. Remaining rows")

FilterDone == df_completed_sales # UNSET

EncodeDone == Said(sidebar, "Preprocessing completed!")

RunOver == pc = "done"

\* The cleaned records whose status is the literal "Completed".
CompletedRecords == SelectSeq(df.rows, LAMBDA r : r["Order Status"] = "Completed")

Positions(rows, r) == {i \in DOMAIN rows : rows[i] = r}

Total(frame) == SumSkipNa(Column(frame, "Quantity"))

----------------------------------------------------------------------------
(* C1 *)

\* C1: once the cleaning step has finished, no record of the cleaned dataset
\* has a null Age, Gender, Loyalty Member or Payment Method, and no record of
\* the completed-orders subset (hence of any aggregate or chart built from it)
\* has a null Age, Gender or Payment Method.
C1_NoNullCritical ==
    CleaningDone =>
        /\ \A i \in DOMAIN df.rows :
              /\ df.rows[i]["Age"] # NaN
              /\ df.rows[i]["Gender"] # NA
              /\ df.rows[i]["Loyalty Member"] # NA
              /\ df.rows[i]["Payment Method"] # NA
        /\ \A i \in DOMAIN df_completed_sales.rows :
              /\ df_completed_sales.rows[i]["Age"] # NaN
              /\ df_completed_sales.rows[i]["Gender"] # NA
              /\ df_completed_sales.rows[i]["Payment Method"] # NA
        /\ HasChart("fig5a") => \A i \in DOMAIN main[Chart("fig5a")].arg : main[Chart("fig5a")].arg[i] # NaN

\* A finished run whose input had a completed row without Age next to a
\* complete row, and which rendered all six figures.
C1_Witness ==
    /\ RunOver
    /\ Len(ChartsShown) = 6
    /\ Len0(df) = 1
    /\ \E i \in DOMAIN fileTable.rows :
          fileTable.rows[i]["Age"] = NaN /\ fileTable.rows[i]["Order Status"] = "Completed"

----------------------------------------------------------------------------
(* C2 *)

\* C2: once the cleaning step has finished, no two records of the cleaned
\* dataset are equal on all fields, and every row that survived the
\* critical-field drop is in the cleaned dataset exactly once, however many
\* identical copies of it there were.
C2_NoDuplicates ==
    CleaningDone =>
        /\ \A i, j \in DOMAIN df.rows : df.rows[i] = df.rows[j] => i = j
        /\ \A k \in DOMAIN df_before_dropna.rows :
              LET r == df_before_dropna.rows[k]
              IN (\A c \in CriticalColumns : r[c] # Null(c)) => Cardinality(Positions(df.rows, r)) = 1

\* Two fully identical input rows survived the critical-field drop and one
\* record is left.
C2_Witness ==
    /\ CleaningDone
    /\ Len0(fileTable) = 2
    /\ fileTable.rows[1] = fileTable.rows[2]
    /\ Len0(df_before_dropna) = 2
    /\ Len0(df) = 1

----------------------------------------------------------------------------
(* C3 *)

\* The columns the encoder and the feature deriver leave as the cleaner made them.
C3_KeptColumns == df.columns \ {"Loyalty Member", "Promotion_Flag"}

C3_Kept(rows) == [i \in DOMAIN rows |-> [c \in C3_KeptColumns |-> rows[i][c]]]

\* The key under which a completed cleaned record is grouped.
C3_Key(keycol, r) == IF keycol = "Month" THEN r["Purchase Date"][2] ELSE r[keycol]

\* The sum of Quantity over the completed cleaned records grouped under k.
C3_QuantityOf(keycol, k) ==
    LET picked == SelectSeq(CompletedRecords, LAMBDA r : C3_Key(keycol, r) = k)
    IN SumSkipNa([i \in DOMAIN picked |-> picked[i]["Quantity"]])

\* table has one row per key of the completed cleaned records, with their Quantity.
C3_Lists(table, keycol) ==
    /\ {table.rows[i][keycol] : i \in DOMAIN table.rows}
          = {C3_Key(keycol, CompletedRecords[i]) : i \in DOMAIN CompletedRecords}
    /\ \A i \in DOMAIN table.rows :
          table.rows[i]["Quantity"] = C3_QuantityOf(keycol, table.rows[i][keycol])

\* C3: the completed-orders subset is exactly the cleaned records whose Order
\* Status is the literal "Completed", in the same order, and the daily and
\* monthly aggregates and every displayed figure hold what those records give.
C3_CompletedOnly ==
    FilterDone =>
        /\ \A i \in DOMAIN df_completed_sales.rows :
              df_completed_sales.rows[i]["Order Status"] = "Completed"
        /\ C3_Kept(df_completed_sales.rows) = C3_Kept(CompletedRecords)
        /\ daily_sales # UNSET => C3_Lists(daily_sales, "Purchase Date")
        /\ monthly_sales # UNSET => C3_Lists(monthly_sales, "Month")
        /\ HasChart("fig1") => main[Chart("fig1")].arg = daily_sales
        /\ HasChart("fig2") =>
              C3_Lists(main[Chart("fig2")].arg, "Product Type")
        /\ HasChart("fig3") => main[Chart("fig3")].arg = monthly_sales
        /\ HasChart("fig5a") =>
              main[Chart("fig5a")].arg = [i \in DOMAIN CompletedRecords |-> CompletedRecords[i]["Age"]]
        /\ HasChart("fig5b") =>
              main[Chart("fig5b")].arg =
                 [i \in DOMAIN CompletedRecords |->
                     <<CompletedRecords[i]["Age"], CompletedRecords[i]["Quantity"],
                       CompletedRecords[i]["Product Type"]>>]
        /\ HasChart("fig6") =>
              \A i \in DOMAIN main[Chart("fig6")].arg :
                 LET bar == main[Chart("fig6")].arg[i]
                 IN bar[2] = Cardinality({k \in DOMAIN CompletedRecords : CompletedRecords[k]["Rating"] = bar[1]})

\* A finished run with all six figures whose cleaned dataset holds one
\* completed and one not completed record ("Cancelled" or "completed").
C3_Witness ==
    /\ RunOver
    /\ Len(ChartsShown) = 6
    /\ Len0(df) = 2
    /\ Len0(df_completed_sales) = 1
    /\ df.rows[1]["Order Status"] = "completed"

----------------------------------------------------------------------------
(* C5 *)

\* C5 as stated: after the encoding step every record of the completed-orders
\* subset has Loyalty Member in {0,1} and Promotion_Flag in {0,1}.
C5_AlwaysBinary ==
    EncodeDone =>
        \A i \in DOMAIN df_completed_sales.rows :
            /\ df_completed_sales.rows[i]["Loyalty Member"] \in {0, 1}
            /\ df_completed_sales.rows[i]["Promotion_Flag"] \in {0, 1}

C5_Code(v) == IF v = "Yes" THEN 1 ELSE IF v = "No" THEN 0 ELSE NaN

\* C5 amended: after the encoding step "Yes" has become 1 and "No" has become
\* 0 in both columns, a missing Promotion_Flag has become 0, and any other
\* value has become null.
C5_EncodedValues ==
    EncodeDone =>
        /\ Len0(df_completed_sales) = Len(CompletedRecords)
        /\ \A i \in DOMAIN df_completed_sales.rows :
              /\ df_completed_sales.rows[i]["Loyalty Member"]
                    = C5_Code(CompletedRecords[i]["Loyalty Member"])
              /\ df_completed_sales.rows[i]["Promotion_Flag"]
                    = IF CompletedRecords[i]["Promotion_Flag"] = NA
                        THEN 0 ELSE C5_Code(CompletedRecords[i]["Promotion_Flag"])

\* The encoder has run on a record with Loyalty Member "No" and a record
\* whose Promotion_Flag was missing.
C5_Witness ==
    /\ EncodeDone
    /\ \E i, j \in DOMAIN CompletedRecords :
          /\ CompletedRecords[i]["Loyalty Member"] = "No"
          /\ CompletedRecords[j]["Promotion_Flag"] = NA
          /\ df_completed_sales.rows[j]["Promotion_Flag"] = 0

----------------------------------------------------------------------------
(* C4 *)

\* C4: for every completed-orders subset the daily aggregate (group by
\* Purchase Date, as line 57 computes it) sums to the subset's total Quantity,
\* records without a Purchase Date included, and a run on a file with every
\* expected column ends with a daily and a monthly aggregate that both sum to
\* that total.
C4_Conservation ==
    (FilterDone /\ fileTable.columns = Columns) =>
        /\ Total(groupby_sum(df_completed_sales, "Purchase Date", NaT))
              = Total(df_completed_sales)
        /\ RunOver =>
              /\ daily_sales # UNSET /\ Total(daily_sales) = Total(df_completed_sales)
              /\ monthly_sales # UNSET /\ Total(monthly_sales) = Total(df_completed_sales)

----------------------------------------------------------------------------
(* C6 *)

GenericErrorShown == Said(main, "An unexpected error occurred")

\* C6: a run that has displayed the generic error message has displayed no
\* chart.
C6_NoChartOnError == GenericErrorShown => ChartsShown = <<>>

----------------------------------------------------------------------------
(* C7 *)

FileNotFoundShown ==
    \E i \in DOMAIN main :
        /\ main[i].kind = "error"
        /\ main[i].text = "The file was not found"
        /\ main[i].arg = CSV_FILE_PATH

\* C7: a run on a missing file ends having displayed the file-not-found error
\* naming CSV_FILE_PATH and the hint, and neither the generic error, nor the
\* success message, nor a sidebar line, nor a chart; a run that displayed the
\* success message never displays the file-not-found error.
C7_FileNotFound ==
    /\ (RunOver /\ fileState = "missing") =>
          /\ FileNotFoundShown
          /\ Said(main, "You can also upload a CSV file")
          /\ ~GenericErrorShown
          /\ ~Said(main, "Please check the CSV file format and column names.")
          /\ ~Said(main, "loaded successfully")
          /\ sidebar = <<>>
          /\ ChartsShown = <<>>
    /\ (fileState # "missing" \/ Said(main, "loaded successfully")) => ~FileNotFoundShown

\* A finished run on a missing file.
C7_Witness == RunOver /\ fileState = "missing" /\ FileNotFoundShown

----------------------------------------------------------------------------
(* C8 *)

C8_Line == "Dropped rows with missing critical info"

C8_RowsRemoved ==
    Cardinality({i \in DOMAIN df_before_dropna.rows :
                    \E c \in CriticalColumns : df_before_dropna.rows[i][c] = Null(c)})

\* C8: the number in the sidebar line "Dropped rows with missing critical
\* info" is the number of rows the critical-field drop removed, and the line
\* is there exactly when a row was removed.
C8_DroppedRowCount ==
    df_before_dropna # UNSET =>
        /\ Said(sidebar, C8_Line) <=> C8_RowsRemoved > 0
        /\ \A i \in DOMAIN sidebar : sidebar[i].text = C8_Line => sidebar[i].arg = C8_RowsRemoved

----------------------------------------------------------------------------
(* C9 *)

\* C9: the monthly aggregate has at most twelve entries, keyed by distinct
\* month numbers in 1..12, one per month number present in the
\* completed-orders subset, each holding the Quantity of all the records of
\* that month whatever their year.
C9_MonthlyBuckets ==
    monthly_sales # UNSET =>
        /\ Len0(monthly_sales) <= 12
        /\ \A i, j \in DOMAIN monthly_sales.rows :
              monthly_sales.rows[i]["Month"] = monthly_sales.rows[j]["Month"] => i = j
        /\ \A i \in DOMAIN monthly_sales.rows :
              /\ monthly_sales.rows[i]["Month"] \in 1..12
              /\ monthly_sales.rows[i]["Quantity"] =
                    C3_QuantityOf("Month", monthly_sales.rows[i]["Month"])
        /\ {monthly_sales.rows[i]["Month"] : i \in DOMAIN monthly_sales.rows}
              = {CompletedRecords[i]["Purchase Date"][2] : i \in DOMAIN CompletedRecords}

\* Two completed records of September 2023 and September 2024 share one entry.
C9_Witness ==
    /\ monthly_sales # UNSET
    /\ Len(CompletedRecords) = 2
    /\ CompletedRecords[1]["Purchase Date"] = <<2023, 9, 20>>
    /\ CompletedRecords[2]["Purchase Date"] = <<2024, 9, 20>>
    /\ Len0(monthly_sales) = 1
    /\ monthly_sales.rows[1]["Quantity"] = 2

----------------------------------------------------------------------------
(* C10 *)

\* An input row as it is after date parsing and default filling.
C10_Filled(r) ==
    [c \in DOMAIN r |->
        CASE c = "Purchase Date" -> to_datetime(r[c])
          [] c = "Add-ons Purchased" -> IF r[c] = NA THEN "None" ELSE r[c]
          [] c = "Add-on Total" -> IF r[c] = NaN THEN 0 ELSE r[c]
          [] OTHER -> r[c]]

C10_Complete(r) == \A c \in CriticalColumns : r[c] # Null(c)

\* C10: duplicates are compared on the filled values: once the cleaning step
\* has finished, input rows that are equal after filling are one record of
\* the cleaned dataset when their critical fields are present (none
\* otherwise), also when they differed in the input by a missing add-on field
\* against its default.  The order shows in the intermediate states: the
\* defaults are filled when the critical-field drop starts, and the critical
\* fields are present when duplicate removal starts.
C10_DuplicatesAfterFill ==
    /\ pc = "dropna" =>
          \A i \in DOMAIN df.rows :
              df.rows[i]["Add-ons Purchased"] # NA /\ df.rows[i]["Add-on Total"] # NaN
    /\ pc = "drop_duplicates" =>
          /\ \A i \in DOMAIN df.rows : C10_Complete(df.rows[i])
          /\ df.rows = SelectSeq([i \in DOMAIN fileTable.rows |-> C10_Filled(fileTable.rows[i])],
                                 C10_Complete)
    /\ CleaningDone =>
          \A i \in DOMAIN fileTable.rows :
              Cardinality(Positions(df.rows, C10_Filled(fileTable.rows[i])))
                  = IF C10_Complete(fileTable.rows[i]) THEN 1 ELSE 0

\* Two input rows that differ only by a missing add-on field against its
\* default value have become one record.
C10_Witness ==
    /\ CleaningDone
    /\ Len0(fileTable) = 2
    /\ fileTable.rows[1] # fileTable.rows[2]
    /\ \/ fileTable.rows[1]["Add-ons Purchased"] = NA /\ fileTable.rows[2]["Add-ons Purchased"] = "None"
       \/ fileTable.rows[1]["Add-on Total"] = 0 /\ fileTable.rows[2]["Add-on Total"] = NaN
    /\ C10_Filled(fileTable.rows[1]) = C10_Filled(fileTable.rows[2])
    /\ Len0(df) = 1

====
